---- MODULE Spec2Model ----
(***************************************************************************)
(* The Escapement library (Escapement.h / Escapement.cpp, version 0.3):   *)
(* the beat() state machine, the per-bucket calibration table, the least   *)
(* squares model and the EEPROM block, as a state machine.                 *)
(*                                                                         *)
(* The object is one record, esc, whose fields carry the names of the      *)
(* class's instance variables; rom is the EEPROM block.  Every method is   *)
(* an operator from (object, EEPROM) to (object, EEPROM), so that a method *)
(* calling another (beat -> writeEEPROM -> setRunMode -> makeModel) is one *)
(* step.  Integers have the widths of the AVR build: int is 16 bits, long  *)
(* is 32 bits, float is IEEE-754 single precision.                         *)
(***************************************************************************)
EXTENDS Integers, Sequences, FiniteSets, TLC

VARIABLES esc, rom, now, calls, op, hist

vars == <<esc, rom, now, calls, op, hist>>

(***************************************************************************)
(* Constants of Escapement.h                                               *)
(***************************************************************************)
COLDSTART == 0
WARMSTART == 1
CALIBRATE == 2
CALFINISH == 3
RUN == 4
CALRTC == 5

\* Run lengths.  The source has TGT_SCALE = 512, TGT_SMOOTHING = 8192 and
\* TEMP_STEPS = 20; the model runs the same code with shorter runs and fewer
\* buckets.
TGT_SCALE == 2
TGT_SMOOTHING == 2
TEMP_STEPS == 2

INIT_PEAK == 10
NO_TEMP == -896
NO_CAL == -1
TEMP_MIN == 18
SETTINGS_TAG == 21318
ERASED_ID == 65535
MAX_DELTA == 5000000
HALF_DAY == 432000
DAY == 864000

Modes == {COLDSTART, WARMSTART, CALIBRATE, CALFINISH, RUN, CALRTC}
Buckets == 0 .. (TEMP_STEPS - 1)
LastIx == TEMP_STEPS - 1

(***************************************************************************)
(* Integer arithmetic of the build                                        *)
(***************************************************************************)
Two15 == 32768
Two16 == 65536
Two24 == 16777216
MaxLong == 2147483647
MinLong == -MaxLong - 1

\* A value converted to a 16-bit int (two's complement).
ToInt16(x) ==
  LET u == x % Two16 IN IF u >= Two15 THEN u - Two16 ELSE u

\* C's division of longs and ints: the quotient truncated toward zero.
CDiv(a, b) ==
  IF b > 0
  THEN (IF a >= 0 THEN a \div b ELSE (a + (b - 1)) \div b)
  ELSE (IF a <= 0 THEN (-a) \div (-b) ELSE -(a \div (-b)))

\* The sum of two longs, wrapped to 32 bits.
AddLong(a, b) ==
  IF a >= 0 /\ b >= 0
  THEN (IF a > MaxLong - b THEN (a + MinLong) + (b + MinLong) ELSE a + b)
  ELSE IF a < 0 /\ b < 0
       THEN (IF a < MinLong - b THEN (a - MinLong) + (b - MinLong) ELSE a + b)
       ELSE a + b

\* The product of an int and a long, as a long wrapped to 32 bits.  The long
\* is split into 16-bit halves so that no partial product leaves 32 bits.
MulLong(a, b) ==
  LET bh == b \div Two16
      bl == b % Two16
      lo == a * bl
      ch == lo \div Two16
      cl == lo % Two16
      hi == (((a * bh) % Two16) + ch) % Two16
  IN  IF hi >= Two15 THEN (hi - Two16) * Two16 + cl ELSE hi * Two16 + cl

(***************************************************************************)
(* float: IEEE-754 single precision, round to nearest even.  A float is    *)
(* the record [m, e] of value m * 2^e with m = 0 (and e = 0) or            *)
(* 2^23 <= |m| < 2^24; inf marks the quotient by zero (an infinity or a    *)
(* NaN).  The values of the model stay far from the exponent's limits.     *)
(***************************************************************************)
Abs(x) == IF x < 0 THEN -x ELSE x

FZero == [m |-> 0, e |-> 0, inf |-> FALSE]
FInf == [m |-> 0, e |-> 0, inf |-> TRUE]

\* The number of bits of M > 0 (M < 2^31).
BitLen(M) == CHOOSE n \in 1 .. 31 : M \div (2 ^ (n - 1)) = 1

\* The float nearest to (-1)^neg * (M + s) * 2^E, where 0 <= s < 1 and
\* s > 0 iff sticky; M >= 2^26 whenever sticky.
FRound(neg, M, E, sticky) ==
  IF M = 0 THEN FZero
  ELSE
    LET n == BitLen(M) IN
    IF n <= 24
    THEN [m |-> (IF neg THEN -1 ELSE 1) * M * (2 ^ (24 - n)),
          e |-> E - (24 - n), inf |-> FALSE]
    ELSE
      LET sh == n - 24
          q == M \div (2 ^ sh)
          r == M % (2 ^ sh)
          half == 2 ^ (sh - 1)
          up == r > half \/ (r = half /\ (sticky \/ q % 2 = 1))
          q1 == IF up THEN q + 1 ELSE q
          q2 == IF q1 = Two24 THEN Two24 \div 2 ELSE q1
          e2 == IF q1 = Two24 THEN E + sh + 1 ELSE E + sh
      IN  [m |-> (IF neg THEN -q2 ELSE q2), e |-> e2, inf |-> FALSE]

\* (float) x for an int or a long x.
FFromInt(x) == FRound(x < 0, Abs(x), 0, FALSE)

FNeg(a) == [a EXCEPT !.m = -a.m]

\* a + b: the smaller operand is aligned with three guard bits, the last
\* one sticky.
FAdd(a, b) ==
  IF a.inf \/ b.inf THEN FInf
  ELSE IF a.m = 0 THEN b
  ELSE IF b.m = 0 THEN a
  ELSE
    LET hi == IF a.e >= b.e THEN a ELSE b
        lo == IF a.e >= b.e THEN b ELSE a
        d == hi.e - lo.e
        A == Abs(hi.m) * 8
        B0 == Abs(lo.m) * 8
        B == IF d >= 27 THEN 1
             ELSE (B0 \div (2 ^ d)) + (IF (B0 % (2 ^ d)) # 0 /\ (B0 \div (2 ^ d)) % 2 = 0
                                       THEN 1 ELSE 0)
        S == (IF hi.m < 0 THEN -A ELSE A) + (IF lo.m < 0 THEN -B ELSE B)
    IN  FRound(S < 0, Abs(S), hi.e - 3, FALSE)

FSub(a, b) == FAdd(a, FNeg(b))

\* a * b: the 48-bit product of the mantissas from 12-bit halves.
FMul(a, b) ==
  IF a.inf \/ b.inf THEN FInf
  ELSE IF a.m = 0 \/ b.m = 0 THEN FZero
  ELSE
    LET ma == Abs(a.m)
        mb == Abs(b.m)
        ah == ma \div 4096
        al == ma % 4096
        bh == mb \div 4096
        bl == mb % 4096
        mid == ah * bl + al * bh
        L == (mid % 4096) * 4096 + al * bl
        H == ah * bh + (mid \div 4096) + (L \div Two24)
        L24 == L % Two24
        M == H * 4 + (L24 \div (Two24 \div 4))
    IN  FRound((a.m < 0) # (b.m < 0), M, a.e + b.e + 22,
               (L24 % (Two24 \div 4)) # 0)

\* The quotient of the mantissas by long division: after k further steps
\* q holds the bits produced so far and r the remainder.
RECURSIVE FDivBits(_, _, _, _)
FDivBits(q, r, mb, k) ==
  IF k = 0 THEN <<q, r>>
  ELSE IF 2 * r >= mb THEN FDivBits(2 * q + 1, 2 * r - mb, mb, k - 1)
       ELSE FDivBits(2 * q, 2 * r, mb, k - 1)

\* a / b
FDiv(a, b) ==
  IF a.inf \/ b.inf \/ b.m = 0 THEN FInf
  ELSE IF a.m = 0 THEN FZero
  ELSE
    LET ma == Abs(a.m)
        mb == Abs(b.m)
        qr == FDivBits(ma \div mb, ma % mb, mb, 26)
    IN  FRound((a.m < 0) # (b.m < 0), qr[1], a.e - b.e - 26, qr[2] # 0)

\* (long) a: the fraction is dropped.  The conversion of an infinity, a NaN
\* or a value outside a long is undefined in C; conv is what the build's
\* conversion routine leaves in that case.
FToLong(a, conv) ==
  IF a.inf THEN conv
  ELSE IF a.m = 0 THEN 0
  ELSE IF a.e > 7 THEN conv
  ELSE IF a.e >= 0 THEN a.m * (2 ^ a.e)
  ELSE IF a.e < -30 THEN 0
  ELSE CDiv(a.m, 2 ^ (-a.e))

(***************************************************************************)
(* The object and the EEPROM block                                         *)
(***************************************************************************)
\* settings_t with every byte zero or every byte 0xFF.
ZeroSettings ==
  [id |-> 0, bias |-> 0, peakScale |-> 0, deltaUspb |-> 0, compensated |-> FALSE,
   uspb |-> [i \in Buckets |-> 0], temp |-> [i \in Buckets |-> 0]]

ErasedSettings ==
  [id |-> ERASED_ID, bias |-> -1, peakScale |-> -1, deltaUspb |-> -1,
   compensated |-> TRUE,
   uspb |-> [i \in Buckets |-> -1], temp |-> [i \in Buckets |-> -1]]

\* The Escapement object as the constructor leaves it: the constructor sets
\* the two pins only, and the object is a global of the sketch, so every
\* other member is zero.
NewEscapement ==
  [beatCounter |-> 0, eeprom |-> ZeroSettings,
   curSmoothing |-> [i \in Buckets |-> 0],
   temp |-> 0, lastTemp |-> 0, slope |-> FZero, intercept |-> FZero,
   tick |-> FALSE, tickPeriod |-> 0, tockPeriod |-> 0,
   lastTime |-> 0, timeBeforeLast |-> 0, deltaT |-> 0, tempIx |-> 0,
   runMode |-> COLDSTART]

\* getTempIx() as it would be if it rounded to the nearest half degree.
getTempIxNearest(o, t) ==
  IF ~o.eeprom.compensated THEN 0
  ELSE LET ix == CDiv(t + 64, 128) - (2 * TEMP_MIN)
       IN  IF ix >= 0 /\ ix < TEMP_STEPS THEN ix ELSE NO_CAL

\* int getTempIx(int t)
getTempIx(o, t) ==
  IF ~o.eeprom.compensated THEN 0
  ELSE LET ix == CDiv(t, 128) - (2 * TEMP_MIN)
       IN  IF ix >= 0 /\ ix < TEMP_STEPS THEN ix ELSE NO_CAL

(***************************************************************************)
(* The three arrays.  getTempIx yields NO_CAL = -1 for a temperature out   *)
(* of range and beat() indexes with it in CALIBRATE; the element before an *)
(* array is what the AVR layout (no padding; eeprom, then curSmoothing)    *)
(* puts there: curSmoothing[-1] is eeprom.temp[TEMP_STEPS-1],              *)
(* eeprom.temp[-1] is the high word of eeprom.uspb[TEMP_STEPS-1], and      *)
(* eeprom.uspb[-1] is the three high bytes of eeprom.deltaUspb followed by *)
(* eeprom.compensated.                                                     *)
(***************************************************************************)
CurSmoothingAt(o, i) ==
  IF i = NO_CAL THEN o.eeprom.temp[LastIx] ELSE o.curSmoothing[i]

SetCurSmoothing(o, i, v) ==
  IF i = NO_CAL THEN [o EXCEPT !.eeprom.temp[LastIx] = v]
  ELSE [o EXCEPT !.curSmoothing[i] = v]

UspbAt(o, i) ==
  IF i = NO_CAL
  THEN ((o.eeprom.deltaUspb \div 256) % Two24)
       + (IF o.eeprom.compensated THEN Two24 ELSE 0)
  ELSE o.eeprom.uspb[i]

SetUspb(o, i, v) ==
  IF i = NO_CAL
  THEN LET mid == v % Two24
           low == o.eeprom.deltaUspb % 256
       IN  [o EXCEPT !.eeprom.deltaUspb =
                        (IF mid >= Two24 \div 2 THEN mid - Two24 ELSE mid) * 256 + low,
                     !.eeprom.compensated = ((v \div Two24) % 256) # 0]
  ELSE [o EXCEPT !.eeprom.uspb[i] = v]

TempAt(o, i) ==
  IF i = NO_CAL THEN o.eeprom.uspb[LastIx] \div Two16 ELSE o.eeprom.temp[i]

SetTemp(o, i, v) ==
  IF i = NO_CAL
  THEN [o EXCEPT !.eeprom.uspb[LastIx] = v * Two16 + (o.eeprom.uspb[LastIx] % Two16)]
  ELSE [o EXCEPT !.eeprom.temp[i] = v]

\* a / b where b may be zero: C leaves the quotient by zero undefined, and
\* dz is what the build's division routine returns for it.
DivOrUndef(a, b, dz) == IF b = 0 THEN dz ELSE CDiv(a, b)

(***************************************************************************)
(* makeModel, setRunMode, readEEPROM, writeEEPROM                          *)
(***************************************************************************)
\* The sums of makeModel's loop over buckets i .. TEMP_STEPS-1, added to acc.
RECURSIVE ModelSums(_, _, _)
ModelSums(o, i, acc) ==
  IF i >= TEMP_STEPS THEN acc
  ELSE IF o.curSmoothing[i] > TGT_SMOOTHING
       THEN LET t == FFromInt(o.eeprom.temp[i])
                u == FFromInt(o.eeprom.uspb[i])
            IN  ModelSums(o, i + 1,
                  [count |-> acc.count + 1,
                   xSum |-> FAdd(acc.xSum, t),
                   ySum |-> FAdd(acc.ySum, u),
                   xxSum |-> FAdd(acc.xxSum, FMul(t, t)),
                   xySum |-> FAdd(acc.xySum, FMul(t, u))])
       ELSE ModelSums(o, i + 1, acc)

\* slope = (count * xySum - xSum * ySum) / (count * xxSum - xSum * xSum),
\* n being (float) count.
ModelSlope(s, n) ==
  FDiv(FSub(FMul(n, s.xySum), FMul(s.xSum, s.ySum)),
       FSub(FMul(n, s.xxSum), FMul(s.xSum, s.xSum)))

\* intercept = (ySum - slope * xSum) / count
ModelIntercept(s, n, sl) == FDiv(FSub(s.ySum, FMul(sl, s.xSum)), n)

\* The line through more than one complete bucket.
ModelLine(o, s, n, sl) ==
  [o EXCEPT !.slope = sl, !.intercept = ModelIntercept(s, n, sl)]

\* The model from the sums s over the complete buckets.
ModelFrom(o, s, n) ==
  IF s.count > 1 THEN ModelLine(o, s, n, ModelSlope(s, n))
  ELSE [o EXCEPT !.slope = FZero, !.intercept = s.ySum]

ModelCount(o, s) == ModelFrom(o, s, FFromInt(s.count))

\* void makeModel()
makeModel(o) ==
  ModelCount(o, ModelSums(o, 0, [count |-> 0, xSum |-> FZero, ySum |-> FZero,
                                 xxSum |-> FZero, xySum |-> FZero]))

\* A setRunMode() whose case RUN keeps the model it finds; C27 tells it from
\* the real one.
setRunModeStale(o, mode) ==
  LET o1 ==
        CASE mode = COLDSTART ->
               [o EXCEPT !.eeprom.id = 0, !.eeprom.bias = 0]
          [] mode = WARMSTART ->
               [o EXCEPT !.beatCounter = 1,
                         !.eeprom.compensated = (o.temp # NO_TEMP),
                         !.eeprom.peakScale = INIT_PEAK,
                         !.eeprom.deltaUspb = 0,
                         !.eeprom.uspb = [i \in Buckets |-> 0],
                         !.eeprom.temp = [i \in Buckets |-> 0],
                         !.curSmoothing = [i \in Buckets |-> 1]]
          [] OTHER -> o
  IN  [o1 EXCEPT !.runMode = mode]

\* setRunMode() as it would be if case WARMSTART also cleared the model.
setRunModeClearsModel(o, mode) ==
  LET o1 ==
        CASE mode = COLDSTART ->
               [o EXCEPT !.eeprom.id = 0, !.eeprom.bias = 0]
          [] mode = WARMSTART ->
               [o EXCEPT !.beatCounter = 1,
                         !.eeprom.compensated = (o.temp # NO_TEMP),
                         !.eeprom.peakScale = INIT_PEAK,
                         !.eeprom.deltaUspb = 0,
                         !.eeprom.uspb = [i \in Buckets |-> 0],
                         !.eeprom.temp = [i \in Buckets |-> 0],
                         !.curSmoothing = [i \in Buckets |-> 1],
                         !.slope = FZero, !.intercept = FZero]
          [] mode = RUN -> makeModel(o)
          [] OTHER -> o
  IN  [o1 EXCEPT !.runMode = mode]

\* void setRunMode(byte mode)
setRunMode(o, mode) ==
  LET o1 ==
        CASE mode = COLDSTART ->
               [o EXCEPT !.eeprom.id = 0, !.eeprom.bias = 0]
          [] mode = WARMSTART ->
               [o EXCEPT !.beatCounter = 1,
                         !.eeprom.compensated = (o.temp # NO_TEMP),
                         !.eeprom.peakScale = INIT_PEAK,
                         !.eeprom.deltaUspb = 0,
                         !.eeprom.uspb = [i \in Buckets |-> 0],
                         !.eeprom.temp = [i \in Buckets |-> 0],
                         !.curSmoothing = [i \in Buckets |-> 1]]
          [] mode = RUN -> makeModel(o)
          [] OTHER -> o
  IN  [o1 EXCEPT !.runMode = mode]

\* boolean readEEPROM(): the object after the read, and the value returned.
readEEPROM(o, block) ==
  IF block.id = SETTINGS_TAG
  THEN [o |-> [o EXCEPT
                 !.eeprom = [block EXCEPT
                    !.uspb = [i \in Buckets |->
                                IF block.uspb[i] <= 0 THEN 0 ELSE block.uspb[i]],
                    !.temp = [i \in Buckets |->
                                IF block.uspb[i] <= 0 THEN 0 ELSE block.temp[i]]],
                 !.curSmoothing = [i \in Buckets |->
                                IF block.uspb[i] <= 0 THEN 1 ELSE TGT_SMOOTHING + 1]],
        ok |-> TRUE]
  ELSE [o |-> [o EXCEPT
                 !.eeprom = [id |-> 0, bias |-> 0, peakScale |-> INIT_PEAK,
                             deltaUspb |-> 0, compensated |-> TRUE,
                             uspb |-> [i \in Buckets |-> 0],
                             temp |-> [i \in Buckets |-> 0]],
                 !.curSmoothing = [i \in Buckets |-> 1]],
        ok |-> FALSE]

\* -x in a long.
NegLong(x) == IF x = MinLong THEN MinLong ELSE -x

\* Either loop of writeEEPROM(): the means of the buckets that are not
\* complete are negated.
NegatePartial(o) ==
  [o EXCEPT !.eeprom.uspb =
              [i \in Buckets |->
                 IF o.curSmoothing[i] <= TGT_SMOOTHING THEN NegLong(o.eeprom.uspb[i])
                 ELSE o.eeprom.uspb[i]]]

\* The block writeEEPROM() hands to eeprom_write_block: the tag set, the
\* buckets that are not complete negated.
BlockToWrite(o) == NegatePartial([o EXCEPT !.eeprom.id = SETTINGS_TAG]).eeprom

\* A writeEEPROM() whose block never reaches the EEPROM; C8 tells it from
\* the real one.
writeEEPROMLost(w) ==
  [o |-> [w.o EXCEPT !.eeprom.id = SETTINGS_TAG], rom |-> w.rom]

\* void writeEEPROM(): the negation is undone after the write.
writeEEPROM(w) ==
  [o |-> NegatePartial(NegatePartial([w.o EXCEPT !.eeprom.id = SETTINGS_TAG])),
   rom |-> BlockToWrite(w.o)]

(***************************************************************************)
(* enable() and beat()                                                     *)
(***************************************************************************)
\* An enable() without the hot start into RUN; C1 tells it from the real one.
enableWarm(w, initialMode, r) ==
  LET o1 == [w.o EXCEPT !.beatCounter = 1, !.lastTemp = r, !.temp = r,
                        !.tempIx = getTempIx(w.o, r),
                        !.tick = TRUE, !.tickPeriod = 0, !.tockPeriod = 0,
                        !.timeBeforeLast = 0, !.lastTime = 0, !.deltaT = 0]
      rd == readEEPROM(o1, w.rom)
  IN  [o |-> IF initialMode # COLDSTART /\ rd.ok THEN setRunMode(rd.o, WARMSTART)
             ELSE IF initialMode # COLDSTART THEN setRunMode(rd.o, COLDSTART)
             ELSE setRunMode(o1, COLDSTART),
       rom |-> w.rom]

\* An enable() that reads the EEPROM before a forced cold start too; C26
\* tells it from the real one.
enableReads(w, initialMode, r) ==
  LET o1 == [w.o EXCEPT !.beatCounter = 1, !.lastTemp = r, !.temp = r,
                        !.tempIx = getTempIx(w.o, r),
                        !.tick = TRUE, !.tickPeriod = 0, !.tockPeriod = 0,
                        !.timeBeforeLast = 0, !.lastTime = 0, !.deltaT = 0]
      rd == readEEPROM(o1, w.rom)
      o2 == IF initialMode # COLDSTART
            THEN IF rd.ok
                 THEN IF rd.o.eeprom.peakScale > INIT_PEAK
                         /\ ((r # NO_TEMP) = rd.o.eeprom.compensated)
                      THEN setRunMode(rd.o, RUN)
                      ELSE setRunMode(rd.o, WARMSTART)
                 ELSE setRunMode(rd.o, COLDSTART)
            ELSE setRunMode(rd.o, COLDSTART)
  IN  [o |-> o2, rom |-> w.rom]

\* void enable(byte initialMode), with r the value readTemp() returns.
enable(w, initialMode, r) ==
  LET o1 == [w.o EXCEPT !.beatCounter = 1, !.lastTemp = r, !.temp = r,
                        !.tempIx = getTempIx(w.o, r),
                        !.tick = TRUE, !.tickPeriod = 0, !.tockPeriod = 0,
                        !.timeBeforeLast = 0, !.lastTime = 0, !.deltaT = 0]
      rd == readEEPROM(o1, w.rom)
      o2 == IF initialMode # COLDSTART
            THEN IF rd.ok
                 THEN IF rd.o.eeprom.peakScale > INIT_PEAK
                         /\ ((r # NO_TEMP) = rd.o.eeprom.compensated)
                      THEN setRunMode(rd.o, RUN)
                      ELSE setRunMode(rd.o, WARMSTART)
                 ELSE setRunMode(rd.o, COLDSTART)
            ELSE setRunMode(o1, COLDSTART)
  IN  [o |-> o2, rom |-> w.rom]

\* The measured interval with the real-time clock correction:
\* deltaT += ((eeprom.bias * deltaT) + 432000) / 864000, in longs.
CorrectedDuration(raw, bias) ==
  AddLong(raw, CDiv(AddLong(MulLong(bias, raw), HALF_DAY), DAY))

\* A guard that lets beats of up to 6 s through; C5 tells it from the real one.
TooLongSix(d) == d > 6000000

\* The guard of the overlong beat.
TooLong(d) == d > MAX_DELTA

\* slope * temp + intercept + eeprom.deltaUspb, converted to long.
RunDuration(o, conv) ==
  FToLong(FAdd(FAdd(FMul(o.slope, FFromInt(o.temp)), o.intercept),
               FFromInt(o.eeprom.deltaUspb)), conv)

\* A case WARMSTART that leaves one beat early; C3 tells it from the real one.
BeatWarmStartEarly(w, peak) ==
  LET o3 == [w.o EXCEPT !.beatCounter = ToInt16(@ + 1)]
  IN  [w EXCEPT !.o = IF o3.beatCounter >= TGT_SCALE THEN setRunMode(o3, CALIBRATE)
                      ELSE o3]

\* case WARMSTART, with peak telling whether pastCoil > MAX_PEAK.
BeatWarmStart(w, peak) ==
  LET o == w.o
      o1 == IF peak THEN [o EXCEPT !.eeprom.peakScale = ToInt16(@ + 1)] ELSE o
      o2 == IF o1.tick THEN [o1 EXCEPT !.tickPeriod = o1.deltaT]
            ELSE [o1 EXCEPT !.tockPeriod = o1.deltaT]
      o3 == [o2 EXCEPT !.beatCounter = ToInt16(@ + 1)]
  IN  [w EXCEPT !.o = IF o3.beatCounter > TGT_SCALE THEN setRunMode(o3, CALIBRATE)
                      ELSE o3]

\* Running averages that take in the ticks only; C23 tells them from the
\* real ones.
AccumulateTicks(o, ix, p, dz) ==
  IF ~o.tick THEN [o EXCEPT !.tockPeriod = p]
  ELSE LET o1 == [o EXCEPT !.tickPeriod = p]
           o2 == SetUspb(o1, ix,
                   AddLong(UspbAt(o1, ix),
                           DivOrUndef(AddLong(p, -UspbAt(o1, ix)), CurSmoothingAt(o1, ix), dz)))
       IN  IF o2.eeprom.compensated
           THEN SetTemp(o2, ix,
                  ToInt16(TempAt(o2, ix)
                          + DivOrUndef(ToInt16(o2.temp - TempAt(o2, ix)),
                                       CurSmoothingAt(o2, ix), dz)))
           ELSE o2

\* The running averages of case CALIBRATE for bucket ix and period p.
Accumulate(o, ix, p, dz) ==
  LET o1 == IF o.tick THEN [o EXCEPT !.tickPeriod = p] ELSE [o EXCEPT !.tockPeriod = p]
      o2 == SetUspb(o1, ix,
              AddLong(UspbAt(o1, ix),
                      DivOrUndef(AddLong(p, -UspbAt(o1, ix)), CurSmoothingAt(o1, ix), dz)))
  IN  IF o2.eeprom.compensated
      THEN SetTemp(o2, ix,
             ToInt16(TempAt(o2, ix)
                     + DivOrUndef(ToInt16(o2.temp - TempAt(o2, ix)),
                                  CurSmoothingAt(o2, ix), dz)))
      ELSE o2

\* A case CALIBRATE that never counts its samples; C21 tells it from the
\* real one.
BeatCalibrateStalls(w, p, dz) ==
  LET o == w.o
      ix == o.tempIx
  IN  IF ix # getTempIx(o, o.lastTemp) /\ CurSmoothingAt(o, ix) > TGT_SMOOTHING
      THEN [w EXCEPT !.o = setRunMode(o, RUN)]
      ELSE [w EXCEPT !.o = Accumulate(o, ix, p, dz)]

\* A case CALIBRATE that admits a sample only within 32 units of the middle
\* of its bucket's first step; C14 tells it from the real one.
BeatCalibrateNear(w, p, dz) ==
  LET o == w.o
      ix == o.tempIx
      o2 == SetCurSmoothing(Accumulate(o, ix, p, dz), ix,
                            ToInt16(CurSmoothingAt(o, ix) + 1))
  IN  IF Abs(o.temp - (2 * TEMP_MIN + ix) * 128) > 32 THEN w
      ELSE IF CurSmoothingAt(o2, ix) > TGT_SMOOTHING
           THEN [o |-> setRunMode([o2 EXCEPT !.eeprom.id = SETTINGS_TAG], CALFINISH),
                 rom |-> BlockToWrite(o2)]
           ELSE [w EXCEPT !.o = o2]

\* case CALIBRATE, with p the corrected period of this beat.
BeatCalibrate(w, p, dz) ==
  LET o == w.o
      ix == o.tempIx
  IN  IF ix # getTempIx(o, o.lastTemp) /\ CurSmoothingAt(o, ix) > TGT_SMOOTHING
      THEN [w EXCEPT !.o = setRunMode(o, RUN)]
      ELSE
        LET o1 == Accumulate(o, ix, p, dz)
            o2 == SetCurSmoothing(o1, ix, ToInt16(CurSmoothingAt(o1, ix) + 1))
        IN  IF CurSmoothingAt(o2, ix) > TGT_SMOOTHING
            THEN LET w1 == writeEEPROM([w EXCEPT !.o = o2])
                 IN  [w1 EXCEPT !.o = setRunMode(w1.o, CALFINISH)]
            ELSE [w EXCEPT !.o = o2]

\* A case RUN that returns the measured duration when it leaves for
\* CALIBRATE; C10 tells it from the real one.
BeatRunRaw(w, conv) ==
  LET o == w.o
  IN  IF o.tempIx # NO_CAL /\ o.curSmoothing[o.tempIx] <= TGT_SMOOTHING
      THEN [w EXCEPT !.o = setRunMode(o, CALIBRATE)]
      ELSE [w EXCEPT !.o = [o EXCEPT !.deltaT = RunDuration(o, conv)]]

\* case RUN
BeatRun(w, conv) ==
  LET o == w.o
      o1 == IF o.tempIx # NO_CAL /\ o.curSmoothing[o.tempIx] <= TGT_SMOOTHING
            THEN setRunMode(o, CALIBRATE) ELSE o
  IN  [w EXCEPT !.o = [o1 EXCEPT !.deltaT = RunDuration(o1, conv)]]

\* A case CALRTC that falls into RUN after the beat; C13 tells it from the
\* real one.
BeatCalRtcLeaves(w) ==
  [w EXCEPT !.o = setRunMode(IF w.o.tick THEN [w.o EXCEPT !.tickPeriod = w.o.deltaT]
                             ELSE [w.o EXCEPT !.tockPeriod = w.o.deltaT], RUN)]

\* case CALRTC
BeatCalRtc(w) ==
  [w EXCEPT !.o = IF w.o.tick THEN [w.o EXCEPT !.tickPeriod = w.o.deltaT]
                  ELSE [w.o EXCEPT !.tockPeriod = w.o.deltaT]]

\* A switch whose case COLDSTART stays in COLDSTART; C2 tells it from the
\* real one.
BeatSwitchCold(w, p, peak, ub) ==
  CASE w.o.runMode = WARMSTART -> BeatWarmStart(w, peak)
    [] w.o.runMode = CALIBRATE -> BeatCalibrate(w, p, ub.dz)
    [] w.o.runMode = CALFINISH -> [w EXCEPT !.o = setRunMode(w.o, RUN)]
    [] w.o.runMode = RUN -> BeatRun(w, ub.conv)
    [] w.o.runMode = CALRTC -> BeatCalRtc(w)
    [] OTHER -> w

\* The switch on runMode.
BeatSwitch(w, p, peak, ub) ==
  CASE w.o.runMode = COLDSTART -> [w EXCEPT !.o = setRunMode(w.o, WARMSTART)]
    [] w.o.runMode = WARMSTART -> BeatWarmStart(w, peak)
    [] w.o.runMode = CALIBRATE -> BeatCalibrate(w, p, ub.dz)
    [] w.o.runMode = CALFINISH -> [w EXCEPT !.o = setRunMode(w.o, RUN)]
    [] w.o.runMode = RUN -> BeatRun(w, ub.conv)
    [] w.o.runMode = CALRTC -> BeatCalRtc(w)
    [] OTHER -> w

\* The temperature and its bucket, refreshed when running compensated.
RefreshTemp(o, r) ==
  IF o.temp # NO_TEMP
  THEN LET o1 == [o EXCEPT !.lastTemp = o.temp, !.temp = r]
       IN  [o1 EXCEPT !.tempIx = getTempIx(o1, r)]
  ELSE o

\* long beat(): topTime is micros() as the magnet passes, r what readTemp()
\* would return and peak whether the coil's peak was above MAX_PEAK.  The
\* result is the new object and EEPROM, the value returned and which of the
\* three ways out was taken.
\* The end of beat() after the switch left w2: the tick is toggled, the
\* times move on and deltaT is returned.
BeatEnd(w2, lastTime, topTime, d) ==
  [w |-> [w2 EXCEPT !.o.tick = ~@, !.o.timeBeforeLast = lastTime,
                    !.o.lastTime = topTime],
   ret |-> w2.o.deltaT, kind |-> "beat", corr |-> d]

\* beat() from the corrected duration d on.
BeatFrom(w, topTime, r, peak, ub, d) ==
  IF TooLong(d)
  THEN [w |-> [w EXCEPT !.o.deltaT = 0], ret |-> 0, kind |-> "ignored", corr |-> d]
  ELSE BeatEnd(BeatSwitch([w EXCEPT !.o = RefreshTemp([w.o EXCEPT !.deltaT = d], r)],
                          d, peak, ub),
               w.o.lastTime, topTime, d)

beat(w, topTime, r, peak, ub) ==
  IF w.o.lastTime = 0
  THEN [w |-> [w EXCEPT !.o.lastTime = topTime], ret |-> 0, kind |-> "first",
        corr |-> 0]
  ELSE BeatFrom(w, topTime, r, peak, ub,
                CorrectedDuration(topTime - w.o.lastTime, w.o.eeprom.bias))

(***************************************************************************)
(* Setters                                                                 *)
(***************************************************************************)
\* void setBias(long factor)
setBias(w, factor) == writeEEPROM([w EXCEPT !.o.eeprom.bias = ToInt16(factor)])

\* long incrBias(long factor)
incrBias(w, factor) ==
  writeEEPROM([w EXCEPT !.o.eeprom.bias = ToInt16(w.o.eeprom.bias + factor)])

\* void setPeakScale(int scaleFactor)
setPeakScale(w, scaleFactor) ==
  writeEEPROM([w EXCEPT !.o.eeprom.peakScale = scaleFactor])

\* A setBeatDelta() that does not write the EEPROM; C16 tells it from the
\* real one.
setBeatDeltaUnsaved(w, beatDelta) == [w EXCEPT !.o.eeprom.deltaUspb = beatDelta]

\* void setBeatDelta(long beatDelta)
setBeatDelta(w, beatDelta) ==
  writeEEPROM([w EXCEPT !.o.eeprom.deltaUspb = beatDelta])

\* 0.5 as a float.
FHalf == [m |-> Two24 \div 2, e |-> -24, inf |-> FALSE]

\* round(x) of Arduino.h: ((x) >= 0 ? (long)((x) + 0.5) : (long)((x) - 0.5)).
RoundToLong(x, conv) ==
  IF ~x.inf /\ x.m >= 0 THEN FToLong(FAdd(x, FHalf), conv)
  ELSE FToLong(FSub(x, FHalf), conv)

\* round(deltaT * (incr / 864000.0))
DeltaIncrement(deltaT, incr, conv) ==
  RoundToLong(FMul(FFromInt(deltaT), FDiv(FFromInt(incr), FFromInt(DAY))), conv)

\* long incrBeatDelta(long incr): the object and the EEPROM after the call.
incrBeatDelta(w, incr, conv) ==
  writeEEPROM([w EXCEPT !.o.eeprom.deltaUspb =
                           AddLong(@, DeltaIncrement(w.o.deltaT, incr, conv))])

\* The value incrBeatDelta() returns from the object o it leaves:
\* (eeprom.deltaUspb * 864000.0) / deltaT, converted to long.
incrBeatDeltaValue(o, conv) ==
  FToLong(FDiv(FMul(FFromInt(o.eeprom.deltaUspb), FFromInt(DAY)), FFromInt(o.deltaT)),
          conv)

(***************************************************************************)
(* The environment: the clock, the sensor, the coil, the sketch            *)
(***************************************************************************)
\* The longest run of the clock the model follows, in microseconds.
MaxTime == 9000000
\* The number of calls of enable() and of the setters in one run.
MaxCalls == 2

\* micros() at the first magnet pass, and the intervals between passes.
FirstTimes == {0, 1500000}
Intervals == {1500000, 5500000}

\* readTemp(): no reading, 18.36 C (in the upper half of bucket 0), 18.5 C
\* and 20.0 C (above the buckets of the model) as degrees C * 256.
TempReadings == {NO_TEMP, 4700, 4736, 5120}

BiasArgs == {794}
DeltaArgs == {25}
PeakArgs == {12}
IncrArgs == {10}

\* What the build leaves for a quotient by zero, and for the conversion to
\* long of a float that is no long.
DivZero == {-1, 1}
ConvUndef == {0, MinLong}

\* An EEPROM block an earlier run has left: bucket 0 calibrated at 18.0 C.
CalibratedBlock ==
  [id |-> SETTINGS_TAG, bias |-> 0, peakScale |-> 11, deltaUspb |-> 0,
   compensated |-> TRUE,
   uspb |-> [i \in Buckets |-> IF i = 0 THEN 1500200 ELSE 0],
   temp |-> [i \in Buckets |-> IF i = 0 THEN 4608 ELSE 0]]

\* An EEPROM block with both of the first two buckets calibrated, at 18.0 C
\* and at 18.5 C, so that the fitted line has a slope.
FittedBlock ==
  [id |-> SETTINGS_TAG, bias |-> 0, peakScale |-> 11, deltaUspb |-> 0,
   compensated |-> TRUE,
   uspb |-> [i \in Buckets |-> IF i = 0 THEN 1500200 ELSE IF i = 1 THEN 1500300 ELSE 0],
   temp |-> [i \in Buckets |-> IF i = 0 THEN 4608 ELSE IF i = 1 THEN 4736 ELSE 0]]

InitRoms == {ErasedSettings, CalibratedBlock, FittedBlock}

NoOp == [name |-> "new", arg |-> 0, kind |-> "", ret |-> 0, corr |-> 0]

World == [o |-> esc, rom |-> rom]

\* hist.sum is the sum of the durations fed to bucket 0 by MeanSample;
\* hist.events counts the calls of beat() since the last enable(), up to two;
\* hist.warm counts the beats the switch has handled in WARMSTART since the
\* mode was last entered.
WarmAfter(o, o2, kind) ==
  IF kind = "beat" /\ o.runMode = WARMSTART THEN hist.warm + 1
  ELSE IF o2.runMode = WARMSTART /\ o.runMode # WARMSTART THEN 0
  ELSE hist.warm

Init ==
  /\ esc = NewEscapement
  /\ rom \in InitRoms
  /\ now = -1
  /\ calls = 0
  /\ op = NoOp
  /\ hist = [events |-> 0, warm |-> 0, sum |-> 0]

Enabled == op.name # "new"

EnableWith(modes, readings) ==
  /\ calls < MaxCalls
  /\ \E initialMode \in modes, r \in readings :
       LET w == enable(World, initialMode, r) IN
         /\ esc' = w.o
         /\ rom' = w.rom
         /\ op' = [NoOp EXCEPT !.name = "enable", !.arg = initialMode]
  /\ calls' = calls + 1
  /\ hist' = [events |-> 0, warm |-> 0, sum |-> 0]
  /\ UNCHANGED now

\* The state after beat() returned b.
Returned(b) ==
  /\ esc' = b.w.o
  /\ rom' = b.w.rom
  /\ op' = [NoOp EXCEPT !.name = "beat", !.kind = b.kind, !.ret = b.ret,
                        !.corr = b.corr]
  /\ hist' = [events |-> IF hist.events < 2 THEN hist.events + 1 ELSE 2,
              warm |-> WarmAfter(esc, b.w.o, b.kind), sum |-> 0]

Enable == EnableWith({COLDSTART, RUN}, TempReadings)

BeatWith(intervals) ==
  /\ Enabled
  /\ \E topTime \in (IF now < 0 THEN FirstTimes ELSE {now + d : d \in intervals}),
        r \in (IF esc.temp # NO_TEMP THEN TempReadings ELSE {NO_TEMP}),
        peak \in (IF esc.runMode = WARMSTART THEN BOOLEAN ELSE {FALSE}),
        dz \in (IF esc.runMode = CALIBRATE THEN DivZero ELSE {-1}),
        conv \in (IF esc.runMode = RUN THEN ConvUndef ELSE {0}) :
       /\ topTime <= MaxTime
       /\ Returned(beat(World, topTime, r, peak, [dz |-> dz, conv |-> conv]))
       /\ now' = topTime
  /\ UNCHANGED calls

Beat == BeatWith(Intervals)

\* A call of a public method other than enable() and beat() that leaves w
\* and returns ret.
CallRet(name, arg, w, ret) ==
  /\ Enabled
  /\ calls < MaxCalls
  /\ esc' = w.o
  /\ rom' = w.rom
  /\ op' = [NoOp EXCEPT !.name = name, !.arg = arg, !.ret = ret]
  /\ calls' = calls + 1
  /\ hist' = IF name = "setRunMode" /\ arg = WARMSTART THEN [hist EXCEPT !.warm = 0]
             ELSE hist
  /\ UNCHANGED now

Call(name, arg, w) == CallRet(name, arg, w, 0)

\* A call whose return value is read from the object it leaves.
CallValue(name, arg, w, conv) ==
  CallRet(name, arg, w,
          IF name = "incrBias" THEN w.o.eeprom.bias ELSE incrBeatDeltaValue(w.o, conv))

SetBias == \E f \in BiasArgs : Call("setBias", f, setBias(World, f))

IncrBias == \E f \in BiasArgs : CallValue("incrBias", f, incrBias(World, f), 0)

SetPeakScale == \E f \in PeakArgs : Call("setPeakScale", f, setPeakScale(World, f))

SetBeatDelta == \E f \in DeltaArgs : Call("setBeatDelta", f, setBeatDelta(World, f))

IncrBeatDelta ==
  \E f \in IncrArgs, conv \in ConvUndef :
    CallValue("incrBeatDelta", f, incrBeatDelta(World, f, conv), conv)

SetRunMode ==
  \E mode \in Modes :
    Call("setRunMode", mode, [o |-> setRunMode(esc, mode), rom |-> rom])

Next ==
  \/ Enable
  \/ Beat
  \/ SetBias
  \/ IncrBias
  \/ SetPeakScale
  \/ SetBeatDelta
  \/ IncrBeatDelta
  \/ SetRunMode

Spec == Init /\ [][Next]_vars

(***************************************************************************)
(* The running mean on its own: from the table as setRunMode(WARMSTART)    *)
(* leaves it, bucket 0 is fed durations by the update of case CALIBRATE.   *)
(***************************************************************************)
\* The number of durations fed to the bucket.
MeanSamples == 4

Durations == {1500000, 1500001, 1500002, 1500003}

\* An uncompensated clock in CALIBRATE right after the reset of WARMSTART.
MeanInit ==
  /\ esc = setRunMode(setRunMode(enable([o |-> NewEscapement, rom |-> ErasedSettings],
                                         COLDSTART, NO_TEMP).o, WARMSTART), CALIBRATE)
  /\ rom = ErasedSettings
  /\ now = -1
  /\ calls = 0
  /\ op = [NoOp EXCEPT !.name = "setRunMode", !.arg = CALIBRATE]
  /\ hist = [events |-> 0, warm |-> 0, sum |-> 0]

\* One sample of case CALIBRATE for bucket 0: the mean is updated with the
\* duration d and the sample count incremented.
MeanSample ==
  /\ esc.curSmoothing[0] <= MeanSamples
  /\ \E d \in Durations :
       /\ esc' = SetCurSmoothing(Accumulate(esc, 0, d, -1), 0,
                                 ToInt16(CurSmoothingAt(esc, 0) + 1))
       /\ op' = [NoOp EXCEPT !.name = "sample", !.corr = d]
       /\ hist' = [hist EXCEPT !.sum = @ + d]
  /\ UNCHANGED <<rom, now, calls>>

SpecMean == MeanInit /\ [][MeanSample]_vars

(***************************************************************************)
(* The clock correction on its own: a clock without a sensor is cold       *)
(* started, given a bias, and beats at intervals of up to 5 s.             *)
(***************************************************************************)
BiasRange == {-794, -1, 0, 1, 430, 794}

RawIntervals == {1500000, 3000000, 5000000}

BiasEnable == EnableWith({COLDSTART}, {NO_TEMP})

BiasSet == \E f \in BiasRange : Call("setBias", f, setBias(World, f))

BiasBeat == BeatWith(RawIntervals)

NextBias ==
  \/ BiasEnable
  \/ BiasSet
  \/ BiasBeat

SpecBias == Init /\ [][NextBias]_vars

(***************************************************************************)
(* getTempIx on its own: a clock with and without a sensor is reset by     *)
(* setRunMode(WARMSTART), and beat()'s refresh of temp and tempIx is       *)
(* applied to readings around every bucket edge and at the ends of int.    *)
(***************************************************************************)
TempInputs ==
  {(2 * TEMP_MIN + k) * 128 + j : k \in -3 .. (TEMP_STEPS + 2),
                                  j \in {0, 1, 32, 63, 64, 65, 127}}
    \cup {NO_TEMP, -32768, -32767, -129, -128, -127, -65, -64, -63, -1, 0, 1,
          63, 64, 127, 128, 32640, 32703, 32704, 32767}

TempInit ==
  /\ \E r \in {NO_TEMP, 4700} :
       esc = setRunMode(enable([o |-> NewEscapement, rom |-> ErasedSettings],
                               COLDSTART, r).o, WARMSTART)
  /\ rom = ErasedSettings
  /\ now = -1
  /\ calls = 0
  /\ op = [NoOp EXCEPT !.name = "setRunMode", !.arg = WARMSTART]
  /\ hist = [events |-> 0, warm |-> 0, sum |-> 0]

\* temp = readTemp(); tempIx = getTempIx(temp); with the sensor reading t.
GetTempIx ==
  /\ \E t \in TempInputs :
       /\ esc' = [esc EXCEPT !.temp = t, !.tempIx = getTempIx(esc, t)]
       /\ op' = [NoOp EXCEPT !.name = "getTempIx", !.arg = t,
                             !.ret = getTempIx(esc, t)]
  /\ UNCHANGED <<rom, now, calls, hist>>

SpecTemp == TempInit /\ [][GetTempIx]_vars

(***************************************************************************)
(* A clock left to itself: it is enabled before the first magnet pass and  *)
(* then beats every 1.5 s, the sensor absent or reading temperatures of    *)
(* the half degree it read at enable().  The sketch calls beat() from      *)
(* loop() for as long as it runs; the run is followed for LiveMaxTime.     *)
(***************************************************************************)
LiveMaxTime == 30000000

LiveReadings == {NO_TEMP, 4650, 4700, 4800}

LiveEnable ==
  /\ now < 0
  /\ EnableWith({COLDSTART, WARMSTART, RUN}, LiveReadings)

\* The magnet passes the coil: first at one of FirstTimes, then every 1.5 s.
LivePass ==
  /\ Enabled
  /\ \E topTime \in (IF now < 0 THEN FirstTimes ELSE {now + 1500000}) :
       /\ topTime <= LiveMaxTime
       /\ now' = topTime

\* The beat() of that pass, at a temperature of the same half degree.
LiveBeat ==
  /\ LivePass
  /\ \E r \in {t \in LiveReadings : CDiv(t, 128) = CDiv(esc.temp, 128)},
        peak \in (IF esc.runMode = WARMSTART THEN BOOLEAN ELSE {FALSE}),
        dz \in (IF esc.runMode = CALIBRATE THEN DivZero ELSE {-1}),
        conv \in (IF esc.runMode = RUN THEN ConvUndef ELSE {0}) :
       Returned(beat(World, now', r, peak, [dz |-> dz, conv |-> conv]))
  /\ UNCHANGED calls

NextLive ==
  \/ LiveEnable
  \/ LiveBeat

\* The pendulum keeps swinging and loop() calls beat() at every pass.
SpecLive == Init /\ [][NextLive]_vars /\ WF_now(LivePass)

(***************************************************************************)
(* makeModel on its own: the table is read from stored settings that an    *)
(* earlier calibration has left, the model is made as setRunMode(RUN)      *)
(* makes it, and the line is evaluated as case RUN of beat() evaluates it. *)
(***************************************************************************)
\* The mean temperatures (degrees C * 256) and durations a calibration may
\* have stored for buckets 0 and 1; 0 stands for a bucket not calibrated.
FitTemps == [i \in 0 .. 1 |-> IF i = 0 THEN {4608, 4700} ELSE {4736, 4800}]

FitMeans == {0, 1500000, 1500200, 1500300}

FitBlocks ==
  {[id |-> SETTINGS_TAG, bias |-> 0, peakScale |-> 11, deltaUspb |-> 0,
    compensated |-> TRUE,
    uspb |-> [i \in Buckets |-> IF i = 0 THEN u0 ELSE IF i = 1 THEN u1 ELSE 0],
    temp |-> [i \in Buckets |-> IF i = 0 THEN t0 ELSE IF i = 1 THEN t1 ELSE 0]] :
     u0 \in FitMeans, u1 \in FitMeans, t0 \in FitTemps[0], t1 \in FitTemps[1]}

FitInit ==
  /\ rom \in FitBlocks
  /\ esc = readEEPROM(NewEscapement, rom).o
  /\ now = -1
  /\ calls = 0
  /\ op = [NoOp EXCEPT !.name = "readEEPROM"]
  /\ hist = [events |-> 0, warm |-> 0, sum |-> 0]

\* makeModel(), as setRunMode(RUN) calls it.
MakeModel ==
  /\ op.name = "readEEPROM"
  /\ esc' = makeModel(esc)
  /\ op' = [NoOp EXCEPT !.name = "makeModel"]
  /\ UNCHANGED <<rom, now, calls, hist>>

\* deltaT = slope * temp + intercept + eeprom.deltaUspb at the temperature t.
Evaluate ==
  /\ op.name = "makeModel"
  /\ \E i \in Buckets, conv \in ConvUndef :
       /\ esc' = [esc EXCEPT !.temp = esc.eeprom.temp[i],
                             !.deltaT = RunDuration([esc EXCEPT !.temp = esc.eeprom.temp[i]],
                                                    conv)]
       /\ op' = [NoOp EXCEPT !.name = "evaluate", !.arg = i,
                   !.ret = RunDuration([esc EXCEPT !.temp = esc.eeprom.temp[i]], conv)]
  /\ UNCHANGED <<rom, now, calls, hist>>

NextFit ==
  \/ MakeModel
  \/ Evaluate

SpecFit == FitInit /\ [][NextFit]_vars

(***************************************************************************)
(* The running averages with what has been credited to them: a clock with  *)
(* a sensor is cold started and put in CALIBRATE, and then beats.          *)
(* hist.lo and hist.hi hold, for each bucket, the least and the greatest   *)
(* corrected duration case CALIBRATE has taken in for it since then,       *)
(* hist.tlo and hist.thi the least and greatest temperature; 0 stands for  *)
(* none.                                                                   *)
(***************************************************************************)
AvgMaxTime == 12000000

AvgIntervals == {1500000, 1500004}

\* The sketch calls enable(COLDSTART) and then setRunMode(CALIBRATE), with
\* or without a setRunMode(WARMSTART) in between.
AvgInit ==
  /\ esc \in {setRunMode(setRunMode(enable([o |-> NewEscapement, rom |-> ErasedSettings],
                                           COLDSTART, 4700).o, WARMSTART), CALIBRATE),
              setRunMode(enable([o |-> NewEscapement, rom |-> ErasedSettings],
                                COLDSTART, 4700).o, CALIBRATE)}
  /\ rom = ErasedSettings
  /\ now = -1
  /\ calls = 0
  /\ op = [NoOp EXCEPT !.name = "setRunMode", !.arg = CALIBRATE]
  /\ hist = [events |-> 0, warm |-> 0, sum |-> 0,
             lo |-> [i \in Buckets |-> 0], hi |-> [i \in Buckets |-> 0],
             tlo |-> [i \in Buckets |-> 0], thi |-> [i \in Buckets |-> 0]]

Least(old, v) == IF old = 0 \/ v < old THEN v ELSE old
Greatest(old, v) == IF old = 0 \/ v > old THEN v ELSE old

\* hist after the beat b from the object o: case CALIBRATE has taken the
\* sample in unless it left for RUN, and for the bucket tempIx if there is
\* one; the temperature is averaged on a compensated clock only.
Credited(o, b) ==
  IF /\ b.kind = "beat"
     /\ o.runMode = CALIBRATE
     /\ b.w.o.runMode \in {CALIBRATE, CALFINISH}
     /\ b.w.o.tempIx \in Buckets
  THEN [hist EXCEPT !.lo[b.w.o.tempIx] = Least(@, b.corr),
                    !.hi[b.w.o.tempIx] = Greatest(@, b.corr),
                    !.tlo[b.w.o.tempIx] =
                       IF o.eeprom.compensated THEN Least(@, b.w.o.temp) ELSE @,
                    !.thi[b.w.o.tempIx] =
                       IF o.eeprom.compensated THEN Greatest(@, b.w.o.temp) ELSE @]
  ELSE hist

\* The state after beat() returned b, with what it has credited.
ReturnedAvg(b) ==
  /\ esc' = b.w.o
  /\ rom' = b.w.rom
  /\ op' = [NoOp EXCEPT !.name = "beat", !.kind = b.kind, !.ret = b.ret,
                        !.corr = b.corr]
  /\ hist' = Credited(esc, b)

AvgBeat ==
  /\ \E topTime \in (IF now < 0 THEN FirstTimes ELSE {now + d : d \in AvgIntervals}),
        r \in (IF esc.temp # NO_TEMP THEN TempReadings ELSE {NO_TEMP}),
        dz \in (IF esc.runMode = CALIBRATE THEN DivZero ELSE {-1}),
        conv \in (IF esc.runMode = RUN THEN ConvUndef ELSE {0}) :
       /\ topTime <= AvgMaxTime
       /\ ReturnedAvg(beat(World, topTime, r, FALSE, [dz |-> dz, conv |-> conv]))
       /\ now' = topTime
  /\ UNCHANGED calls

SpecAvg == AvgInit /\ [][AvgBeat]_vars

(***************************************************************************)
(* The claims                                                              *)
(***************************************************************************)
IsBeat == op'.name = "beat"

\* The corrected interval beat() measures in the step, from the state before.
Measured == CorrectedDuration(now' - esc.lastTime, esc.eeprom.bias)

\* The step is a beat the switch handles: not the first one, not overlong.
Handled == IsBeat /\ esc.lastTime # 0 /\ Measured <= MAX_DELTA

Forced == op.arg = COLDSTART

\* C1 as the spec states it: enable() selects WARMSTART for a valid block
\* (cleared or not) and COLDSTART for an invalid block or a forced cold start,
\* and no other mode.
C1_AsStated ==
  op.name = "enable" =>
    esc.runMode = IF Forced \/ rom.id # SETTINGS_TAG THEN COLDSTART ELSE WARMSTART

\* C1: enable() selects RUN for a valid block whose peakScale is above
\* INIT_PEAK and whose compensation flag equals the sensor's presence,
\* WARMSTART with the table cleared for any other valid block, and COLDSTART
\* for an invalid block or a forced cold start; it selects no other mode.
C1_EnableRule ==
  op.name = "enable" =>
    IF Forced \/ rom.id # SETTINGS_TAG THEN esc.runMode = COLDSTART
    ELSE IF rom.peakScale > INIT_PEAK /\ ((esc.temp # NO_TEMP) = rom.compensated)
         THEN esc.runMode = RUN
         ELSE /\ esc.runMode = WARMSTART
              /\ \A i \in Buckets : esc.eeprom.uspb[i] = 0 /\ esc.curSmoothing[i] = 1

C1_Witness == op.name = "enable" /\ rom.id = SETTINGS_TAG /\ esc.runMode = RUN

\* C2 as the spec states it: in COLDSTART every detected event leaves the
\* mode WARMSTART.
C2_AsStated ==
  [][IsBeat /\ esc.runMode = COLDSTART => esc'.runMode = WARMSTART]_vars

\* C2: in COLDSTART a beat the switch handles leaves the mode WARMSTART; the
\* first beat after enable() and an overlong beat leave it COLDSTART.
C2_ColdStartOneBeat ==
  [][IsBeat /\ esc.runMode = COLDSTART =>
       esc'.runMode = IF Handled THEN WARMSTART ELSE COLDSTART]_vars

C2_Witness ==
  op.name = "beat" /\ op.kind = "beat" /\ esc.runMode = WARMSTART /\ esc.beatCounter = 1

\* The step enters WARMSTART: by a beat, by setRunMode(WARMSTART), by enable().
EntersWarmStart ==
  /\ esc'.runMode = WARMSTART
  /\ \/ esc.runMode # WARMSTART
     \/ op'.name = "enable"
     \/ op'.name = "setRunMode"

C4_AsStated ==
  [][/\ IsBeat /\ hist.events = 0 =>
          /\ op'.kind = "first" /\ op'.ret = 0
          /\ esc' = [esc EXCEPT !.lastTime = now']
     /\ IsBeat /\ hist.events = 1
          /\ CorrectedDuration(now' - now, esc.eeprom.bias) <= MAX_DELTA =>
          /\ op'.kind = "beat"
          /\ op'.corr = CorrectedDuration(now' - now, esc.eeprom.bias)]_vars

\* C5: an overlong beat returns 0 and leaves the table, the sample counts,
\* the mode, beatCounter, the tick flag and the EEPROM as they were.
C5_OverlongIgnored ==
  [][IsBeat /\ Measured > MAX_DELTA =>
       /\ op'.ret = 0
       /\ esc'.eeprom = esc.eeprom
       /\ esc'.curSmoothing = esc.curSmoothing
       /\ esc'.runMode = esc.runMode
       /\ esc'.beatCounter = esc.beatCounter
       /\ esc'.tick = esc.tick
       /\ rom' = rom]_vars

C5_Witness == op.name = "beat" /\ op.kind = "ignored" /\ op.corr > MAX_DELTA

\* C6: the beat after an ignored overlong one, arriving within 5 s (corrected)
\* of it, is handled by the switch.
C6_AsStated ==
  [][(/\ op.name = "beat" /\ op.kind = "ignored"
      /\ IsBeat
      /\ CorrectedDuration(now' - now, esc.eeprom.bias) <= MAX_DELTA)
     => op'.kind = "beat"]_vars

\* r + ((r * b + 432000) div 864000) over the integers, the product taken in
\* two parts: r * b + 432000 = 1000 * (rh * b) + (rl * b + 432000).
MathCorrected(r, b) ==
  LET rh == r \div 1000
      rl == r % 1000
  IN  r + ((rh * b + ((rl * b + HALF_DAY) \div 1000)) \div 864)

\* C7: for every bias and every measured interval of 0 .. 5,000,000 us, the
\* corrected duration beat() computes is r + ((r * b + 432000) div 864000),
\* and r itself when the bias is 0.
C7_AsStated ==
  [][IsBeat /\ esc.lastTime # 0 /\ now' - esc.lastTime \in 0 .. MAX_DELTA =>
       /\ op'.corr = MathCorrected(now' - esc.lastTime, esc.eeprom.bias)
       /\ esc.eeprom.bias = 0 => op'.corr = now' - esc.lastTime]_vars

\* The buckets whose sample count the step takes above TGT_SMOOTHING.
Completed(i) ==
  esc.curSmoothing[i] <= TGT_SMOOTHING /\ esc'.curSmoothing[i] > TGT_SMOOTHING

\* C8: the beat of CALIBRATE that takes a bucket's sample count above
\* TGT_SMOOTHING writes the block, which then holds the tag and that bucket's
\* mean and temperature as a complete bucket's, and leaves the mode CALFINISH.
C8_PersistOnComplete ==
  [][IsBeat /\ esc.runMode = CALIBRATE =>
       \A i \in Buckets :
         Completed(i) =>
           /\ rom' = BlockToWrite(esc')
           /\ rom'.id = SETTINGS_TAG
           /\ rom'.uspb[i] = esc'.eeprom.uspb[i]
           /\ rom'.temp[i] = esc'.eeprom.temp[i]
           /\ readEEPROM(esc', rom').o.curSmoothing[i] = TGT_SMOOTHING + 1
           /\ esc'.runMode = CALFINISH]_vars

C8_Witness ==
  /\ op.name = "beat" /\ esc.runMode = CALFINISH
  /\ \E i \in Buckets : esc.curSmoothing[i] = TGT_SMOOTHING + 1 /\ rom.uspb[i] > 0

\* C9: after enable(), every bucket's sample count is in 1 .. TGT_SMOOTHING+1.
C9_AsStated ==
  Enabled => \A i \in Buckets :
               1 <= esc.curSmoothing[i] /\ esc.curSmoothing[i] <= TGT_SMOOTHING + 1

\* The bucket of the beat is in range and not complete.
Incomplete == esc'.tempIx # NO_CAL /\ esc.curSmoothing[esc'.tempIx] <= TGT_SMOOTHING

\* C10 as the spec states it: a beat of RUN whose bucket is in range and not
\* complete returns the corrected measured duration and leaves the mode
\* CALIBRATE.
C10_AsStated ==
  [][Handled /\ esc.runMode = RUN /\ Incomplete =>
       op'.ret = op'.corr /\ esc'.runMode = CALIBRATE]_vars

\* C10: every beat the switch handles in RUN returns
\* slope * temp + intercept + deltaUspb, also when its bucket is in range and
\* not complete; in that case it leaves the mode CALIBRATE, else RUN.
C10_RunReturnsModel ==
  [][Handled /\ esc.runMode = RUN =>
       /\ \E conv \in ConvUndef : op'.ret = RunDuration(esc', conv)
       /\ esc'.runMode = IF Incomplete THEN CALIBRATE ELSE RUN]_vars

C10_Witness ==
  /\ op.name = "beat" /\ op.kind = "beat" /\ esc.runMode = CALIBRATE
  /\ op.ret # op.corr
  /\ op.ret = RunDuration(esc, 0)

\* C11: a beat the switch handles in RUN whose bucket is out of range returns
\* the corrected measured duration and leaves the mode RUN.
C11_AsStated ==
  [][Handled /\ esc.runMode = RUN /\ esc'.tempIx = NO_CAL =>
       op'.ret = op'.corr /\ esc'.runMode = RUN]_vars

\* No bucket is complete.
NoneComplete(o) == \A i \in Buckets : o.curSmoothing[i] <= TGT_SMOOTHING

\* C12: a beat handled in CALFINISH with no complete bucket leaves the mode
\* CALIBRATE; a beat handled in RUN with intercept = 0 returns the corrected
\* measured duration and leaves the mode CALFINISH; and no handled beat returns
\* anything but the corrected measured duration while no bucket is complete.
C12_AsStated ==
  [][/\ Handled /\ esc.runMode = CALFINISH /\ NoneComplete(esc) =>
          esc'.runMode = CALIBRATE
     /\ Handled /\ esc.runMode = RUN /\ esc.intercept = FZero =>
          op'.ret = op'.corr /\ esc'.runMode = CALFINISH
     /\ Handled /\ NoneComplete(esc') => op'.ret = op'.corr]_vars

\* C13: in CALRTC a beat the switch handles returns the corrected measured
\* duration; every beat leaves the table, the sample counts, the model, the
\* EEPROM and the mode CALRTC as they were.
C13_CalRtcAbsorbing ==
  [][/\ IsBeat /\ esc.runMode = CALRTC =>
       /\ Handled => op'.ret = op'.corr /\ op'.corr = Measured
       /\ esc'.eeprom = esc.eeprom
       /\ esc'.curSmoothing = esc.curSmoothing
       /\ esc'.slope = esc.slope /\ esc'.intercept = esc.intercept
       /\ rom' = rom
       /\ esc'.runMode = CALRTC
     /\ esc.runMode = CALRTC /\ esc'.runMode # CALRTC =>
          op'.name \in {"setRunMode", "enable"}]_vars

C13_Witness ==
  /\ op.name = "beat" /\ op.kind = "beat" /\ esc.runMode = CALRTC
  /\ op.ret = op.corr /\ op.ret > 0

\* The bucket of temperature t: the half degree step that holds t, counted
\* from TEMP_MIN, or bucket 0 without compensation.
BucketOf(comp, t) ==
  IF ~comp THEN 0
  ELSE IF t >= 2 * TEMP_MIN * 128 /\ t < (2 * TEMP_MIN + TEMP_STEPS) * 128
       THEN (t \div 128) - 2 * TEMP_MIN
       ELSE NO_CAL

\* The distance of the beat's temperature from the centre the spec gives its
\* bucket, TEMP_MIN + tempIx * 0.5 C.
Distance == Abs(esc'.temp - (2 * TEMP_MIN + esc'.tempIx) * 128)

\* The beat is handled in CALIBRATE with its bucket in range.
Collects == Handled /\ esc.runMode = CALIBRATE /\ esc'.tempIx \in Buckets

\* The step leaves every mean, temperature and sample count as it was.
TableUnchanged ==
  /\ esc'.eeprom.uspb = esc.eeprom.uspb
  /\ esc'.eeprom.temp = esc.eeprom.temp
  /\ esc'.curSmoothing = esc.curSmoothing

\* C14 as the spec states it: with compensation, the beat updates its bucket
\* iff the distance is at most 32, and leaves the table as it was otherwise.
C14_AsStated ==
  [][Collects /\ esc.eeprom.compensated =>
       IF Distance <= 32
       THEN esc'.curSmoothing[esc'.tempIx] = esc.curSmoothing[esc'.tempIx] + 1
       ELSE TableUnchanged]_vars

\* C14: there is no admission tolerance.  A beat handled in CALIBRATE with its
\* bucket in range adds its duration to the bucket's mean and 1 to its sample
\* count whatever the distance, unless the bucket differs from the one of the
\* previous temperature and is complete: then the table stays and the mode
\* becomes RUN.
C14_NoTolerance ==
  [][Collects =>
       LET ix == esc'.tempIx
           n == esc.curSmoothing[ix]
       IN  IF ix # BucketOf(esc.eeprom.compensated, esc'.lastTemp) /\ n > TGT_SMOOTHING
           THEN TableUnchanged /\ esc'.runMode = RUN
           ELSE /\ esc'.curSmoothing[ix] = n + 1
                /\ n # 0 => esc'.eeprom.uspb[ix] =
                              esc.eeprom.uspb[ix] + CDiv(op'.corr - esc.eeprom.uspb[ix], n)
                /\ esc'.runMode = IF n + 1 > TGT_SMOOTHING THEN CALFINISH ELSE CALIBRATE]_vars

C14_Witness ==
  /\ op.name = "beat" /\ op.kind = "beat" /\ esc.runMode = CALIBRATE
  /\ esc.eeprom.compensated /\ esc.tempIx \in Buckets
  /\ Abs(esc.temp - (2 * TEMP_MIN + esc.tempIx) * 128) > 32
  /\ esc.curSmoothing[esc.tempIx] = 2 /\ esc.eeprom.uspb[esc.tempIx] = op.corr

\* Bucket j keeps its mean and its sample count in the step.
Keeps(j) ==
  /\ esc'.eeprom.uspb[j] = esc.eeprom.uspb[j]
  /\ esc'.curSmoothing[j] = esc.curSmoothing[j]

\* C15: a beat handled in CALIBRATE changes the mean and the sample count of
\* no bucket but its own, setRunMode() changes them only for WARMSTART, and a
\* beat changes them in no mode but CALIBRATE and COLDSTART.
C15_AsStated ==
  [][/\ Handled /\ esc.runMode = CALIBRATE =>
          \A j \in Buckets : j # esc'.tempIx => Keeps(j)
     /\ op'.name = "setRunMode" /\ op'.arg # WARMSTART => \A j \in Buckets : Keeps(j)
     /\ IsBeat /\ esc.runMode \notin {CALIBRATE, COLDSTART} =>
          \A j \in Buckets : Keeps(j)]_vars

\* C16: when setBias, incrBias, setBeatDelta or incrBeatDelta returns, the
\* EEPROM holds the tag and the bias and deltaUspb of the object, setBias and
\* setBeatDelta have stored their argument, and the table of the object is as
\* it was.
C16_SettersPersist ==
  [][op'.name \in {"setBias", "incrBias", "setBeatDelta", "incrBeatDelta"} =>
       /\ rom'.id = SETTINGS_TAG
       /\ rom'.bias = esc'.eeprom.bias
       /\ rom'.deltaUspb = esc'.eeprom.deltaUspb
       /\ op'.name = "setBias" => esc'.eeprom.bias = op'.arg
       /\ op'.name = "setBeatDelta" => esc'.eeprom.deltaUspb = op'.arg
       /\ TableUnchanged]_vars

C16_Witness ==
  /\ op.name = "incrBeatDelta" /\ rom.id = SETTINGS_TAG
  /\ rom.deltaUspb = esc.eeprom.deltaUspb /\ rom.deltaUspb > 0

\* C17: after k samples the mean of bucket 0 is less than 1 us from the
\* arithmetic mean of the k durations, and it is the first duration after the
\* first sample.
C17_AsStated ==
  LET k == esc.curSmoothing[0] - 1
      mean == esc.eeprom.uspb[0]
  IN  op.name = "sample" =>
        /\ Abs(k * mean - hist.sum) < k
        /\ k = 1 => mean = hist.sum

\* The step is a call of setRunMode(WARMSTART).
IsReset == op'.name = "setRunMode" /\ op'.arg = WARMSTART

\* The table as case WARMSTART of setRunMode() leaves it: every mean and
\* temperature 0, every sample count 1, the manual adjustment 0.
TableDefault(o) ==
  /\ \A i \in Buckets :
       o.eeprom.uspb[i] = 0 /\ o.eeprom.temp[i] = 0 /\ o.curSmoothing[i] = 1
  /\ o.eeprom.deltaUspb = 0

\* C18 as stated: setRunMode(WARMSTART) is idempotent, it leaves every bucket
\* at mean 0 and sample count 1 and the manual adjustment 0, and it leaves
\* the linear model unset, the intercept being 0.
C18_AsStated ==
  [][IsReset => /\ setRunMode(esc', WARMSTART) = esc'
                /\ TableDefault(esc')
                /\ esc'.intercept = FZero]_vars

\* C18: setRunMode(WARMSTART) is idempotent: a second call right after the
\* first changes nothing.  It leaves the mode WARMSTART, the beat counter 1,
\* the peak scale INIT_PEAK, every bucket at mean 0, temperature 0 and sample
\* count 1, and the manual adjustment 0.  It does not touch the linear model:
\* slope and intercept keep the values the last makeModel() gave them.
C18_ResetIdempotent ==
  [][IsReset => /\ setRunMode(esc', WARMSTART) = esc'
                /\ TableDefault(esc')
                /\ esc'.runMode = WARMSTART
                /\ esc'.beatCounter = 1
                /\ esc'.eeprom.peakScale = INIT_PEAK
                /\ esc'.slope = esc.slope
                /\ esc'.intercept = esc.intercept]_vars

\* A clock that ran on a model has been reset: the model is still there.
C18_Witness ==
  /\ op.name = "setRunMode" /\ op.arg = WARMSTART
  /\ esc.runMode = WARMSTART
  /\ TableDefault(esc)
  /\ esc.intercept # FZero

\* The bucket the spec's rule gives the temperature t: to the nearest half
\* degree, (t + 64) div 128 - 2 * TEMP_MIN.
NearestBucket(comp, t) ==
  IF ~comp THEN 0
  ELSE LET q == ((t + 64) \div 128) - 2 * TEMP_MIN
       IN  IF q \in Buckets THEN q ELSE NO_CAL

\* C19 as stated: getTempIx returns 0 when the clock is not compensated, and
\* otherwise (t + 64) div 128 - 2 * TEMP_MIN when that is a bucket and NO_CAL
\* when it is not, for every 16-bit temperature.
C19_AsStated ==
  op.name = "getTempIx" => op.ret = NearestBucket(esc.eeprom.compensated, op.arg)

\* C19: getTempIx returns 0 for every temperature when the clock is not
\* compensated.  Otherwise bucket i is the half degree that starts at
\* TEMP_MIN + i * 0.5 C: getTempIx returns i exactly for the temperatures t
\* with (2 * TEMP_MIN + i) * 128 <= t < (2 * TEMP_MIN + i + 1) * 128, and
\* NO_CAL for every other 16-bit temperature, NO_TEMP included.
C19_TruncatingBucket ==
  op.name = "getTempIx" =>
    /\ op.ret = BucketOf(esc.eeprom.compensated, op.arg)
    /\ esc.tempIx = op.ret
    /\ ~esc.eeprom.compensated => op.ret = 0
    /\ esc.eeprom.compensated =>
         /\ \A i \in Buckets :
              op.ret = i <=> /\ (2 * TEMP_MIN + i) * 128 <= op.arg
                             /\ op.arg < (2 * TEMP_MIN + i + 1) * 128
         /\ op.ret \in Buckets \cup {NO_CAL}
         /\ op.arg = NO_TEMP => op.ret = NO_CAL

\* A compensated clock reads a temperature in the upper half of a bucket's
\* half degree and gets that bucket, not the next.
C19_Witness ==
  /\ op.name = "getTempIx"
  /\ esc.eeprom.compensated
  /\ op.arg % 128 >= 64
  /\ op.ret \in Buckets
  /\ op.ret # NearestBucket(TRUE, op.arg)

\* C20: no index outside the table is used: a beat handled in CALIBRATE whose
\* temperature has no bucket (tempIx = NO_CAL) is a no-op, leaving the mode,
\* the table, the sample counts and the settings as they were.
C20_AsStated ==
  [][Handled /\ esc.runMode = CALIBRATE /\ esc'.tempIx = NO_CAL =>
       /\ esc'.runMode = CALIBRATE
       /\ TableUnchanged
       /\ esc'.eeprom = esc.eeprom]_vars

\* The bucket of the state is complete, or the temperature has none.
BucketDone(o) == o.tempIx = NO_CAL \/ o.curSmoothing[o.tempIx] > TGT_SMOOTHING

Complete(o) == {i \in Buckets : o.curSmoothing[i] > TGT_SMOOTHING}

\* The (temperature, mean) points of the complete buckets lie on one line.
Collinear(o) ==
  \A i \in Complete(o), j \in Complete(o), k \in Complete(o) :
    (o.eeprom.uspb[j] - o.eeprom.uspb[i]) * (o.eeprom.temp[k] - o.eeprom.temp[i])
      = (o.eeprom.uspb[k] - o.eeprom.uspb[i]) * (o.eeprom.temp[j] - o.eeprom.temp[i])

\* C22: after makeModel(), with no complete bucket the model is unset (slope
\* and intercept 0); with one, the slope is 0 and the intercept that bucket's
\* mean, and the line evaluates to that mean; with two or more whose points
\* are collinear, the line evaluated at a complete bucket's temperature gives
\* that bucket's mean, to within 1 us.
C22_AsStated ==
  LET n == Cardinality(Complete(esc))
  IN  op.name \in {"makeModel", "evaluate"} =>
        /\ n = 0 => esc.slope = FZero /\ esc.intercept = FZero
        /\ n = 1 => /\ esc.slope = FZero
                    /\ \A i \in Complete(esc) : esc.intercept = FFromInt(esc.eeprom.uspb[i])
                    /\ op.name = "evaluate" =>
                         \A i \in Complete(esc) : op.ret = esc.eeprom.uspb[i]
        /\ n >= 2 /\ Collinear(esc) /\ op.name = "evaluate" /\ op.arg \in Complete(esc) =>
             Abs(op.ret - esc.eeprom.uspb[op.arg]) <= 1

\* The object without the tick flag and the two diagnostic durations.
WithoutTick(o) == [o EXCEPT !.tick = TRUE, !.tickPeriod = 0, !.tockPeriod = 0]

\* The objects that differ from o in the tick flag and the diagnostic
\* durations only.
TickVariants(o) ==
  {[o EXCEPT !.tick = ~o.tick],
   [o EXCEPT !.tick = ~o.tick, !.tickPeriod = o.tockPeriod + 1, !.tockPeriod = 0]}

\* Two returns of beat() that agree in the value returned, in the way out,
\* in the EEPROM and in all of the object but the tick flag and durations.
SameOutcome(b1, b2) ==
  /\ b1.ret = b2.ret
  /\ b1.kind = b2.kind
  /\ b1.w.rom = b2.w.rom
  /\ WithoutTick(b1.w.o) = WithoutTick(b2.w.o)

\* The beats the clock may see next.
NextBeats ==
  {[topTime |-> t, r |-> r, peak |-> peak, ub |-> [dz |-> dz, conv |-> conv]] :
     t \in (IF now < 0 THEN FirstTimes ELSE {now + d : d \in Intervals}),
     r \in (IF esc.temp # NO_TEMP THEN TempReadings ELSE {NO_TEMP}),
     peak \in (IF esc.runMode = WARMSTART THEN BOOLEAN ELSE {FALSE}),
     dz \in (IF esc.runMode = CALIBRATE THEN DivZero ELSE {-1}),
     conv \in (IF esc.runMode = RUN THEN ConvUndef ELSE {0})}

\* C23: the tick flag has no effect: from any state of the clock and from
\* the same state with the tick flag flipped and other diagnostic durations,
\* the same beat returns the same duration and leaves the same mode, table,
\* sample counts, settings and EEPROM; so two runs that start in states
\* differing in these fields only and see the same events agree on all of
\* these throughout.  setRunMode() does not read the fields either.
C23_TickNoEffect ==
  Enabled =>
    \A v \in TickVariants(esc) :
      /\ \A i \in NextBeats :
           SameOutcome(beat(World, i.topTime, i.r, i.peak, i.ub),
                       beat([o |-> v, rom |-> rom], i.topTime, i.r, i.peak, i.ub))
      /\ \A mode \in Modes : WithoutTick(setRunMode(v, mode)) = WithoutTick(setRunMode(esc, mode))

\* A clock in CALIBRATE awaits a tock after a beat it has handled: the beat
\* takes the tock branch, its variant the tick branch.
C23_Witness ==
  /\ op.kind = "beat"
  /\ esc.runMode = CALIBRATE
  /\ ~esc.tick
  /\ esc.tickPeriod > 0
  /\ \E i \in NextBeats, v \in TickVariants(esc) :
       beat(World, i.topTime, i.r, i.peak, i.ub).w.o.tockPeriod
         # beat([o |-> v, rom |-> rom], i.topTime, i.r, i.peak, i.ub).w.o.tockPeriod

\* The beats the clock may see next when the sensor delivers a reading.
NextReadBeats ==
  {[topTime |-> t, r |-> r, peak |-> peak, ub |-> [dz |-> dz, conv |-> conv]] :
     t \in (IF now < 0 THEN FirstTimes ELSE {now + d : d \in Intervals}),
     r \in TempReadings \ {NO_TEMP},
     peak \in (IF esc.runMode = WARMSTART THEN BOOLEAN ELSE {FALSE}),
     dz \in (IF esc.runMode = CALIBRATE THEN DivZero ELSE {-1}),
     conv \in (IF esc.runMode = RUN THEN ConvUndef ELSE {0})}

\* C24: on a clock that had a reading at enable(), a beat that is handled
\* while the sensor delivers a reading takes that reading as its temperature
\* and looks its bucket up with it, also after a beat at which the sensor
\* delivered none.
C24_AsStated ==
  op.name = "beat" /\ esc.lastTemp # NO_TEMP =>
    \A i \in NextReadBeats :
      LET b == beat(World, i.topTime, i.r, i.peak, i.ub)
      IN  b.kind = "beat" =>
            /\ b.w.o.temp = i.r
            /\ b.w.o.tempIx = getTempIx(esc, i.r)

\* The object and the value readEEPROM() gives right after a writeEEPROM()
\* in the state.
ReadBack == readEEPROM(writeEEPROM(World).o, writeEEPROM(World).rom)

\* C25: writeEEPROM() followed by readEEPROM() succeeds and restores every
\* complete bucket as complete, with count TGT_SMOOTHING + 1 and the same
\* mean and temperature, every other bucket as mean 0, temperature 0 and
\* count 1, and bias, deltaUspb, peakScale and compensated as they were;
\* writeEEPROM() itself leaves the table and the counts in memory as they
\* were.
C25_AsStated ==
  Enabled =>
    /\ ReadBack.ok
    /\ \A i \in Buckets :
         IF esc.curSmoothing[i] > TGT_SMOOTHING
         THEN /\ ReadBack.o.curSmoothing[i] = TGT_SMOOTHING + 1
              /\ ReadBack.o.eeprom.uspb[i] = esc.eeprom.uspb[i]
              /\ ReadBack.o.eeprom.temp[i] = esc.eeprom.temp[i]
         ELSE /\ ReadBack.o.curSmoothing[i] = 1
              /\ ReadBack.o.eeprom.uspb[i] = 0
              /\ ReadBack.o.eeprom.temp[i] = 0
    /\ ReadBack.o.eeprom.bias = esc.eeprom.bias
    /\ ReadBack.o.eeprom.deltaUspb = esc.eeprom.deltaUspb
    /\ ReadBack.o.eeprom.peakScale = esc.eeprom.peakScale
    /\ ReadBack.o.eeprom.compensated = esc.eeprom.compensated
    /\ writeEEPROM(World).o.eeprom.uspb = esc.eeprom.uspb
    /\ writeEEPROM(World).o.eeprom.temp = esc.eeprom.temp
    /\ writeEEPROM(World).o.curSmoothing = esc.curSmoothing

\* The state of the clock with the EEPROM holding the block b instead.
WorldWith(b) == [o |-> esc, rom |-> b]

\* C26: a forced cold start ignores the EEPROM, and so does all that follows
\* until the next enable(): whatever block the EEPROM holds, enable(COLDSTART)
\* leaves the same object, every beat returns the same value and leaves the
\* same object (mode and table included), and so do the setters.
C26_ColdIgnoresStore ==
  \A b \in InitRoms :
    /\ \A r \in TempReadings :
         enable(WorldWith(b), COLDSTART, r).o = enable(World, COLDSTART, r).o
    /\ Enabled =>
         /\ \A i \in NextBeats :
              /\ beat(WorldWith(b), i.topTime, i.r, i.peak, i.ub).ret
                   = beat(World, i.topTime, i.r, i.peak, i.ub).ret
              /\ beat(WorldWith(b), i.topTime, i.r, i.peak, i.ub).w.o
                   = beat(World, i.topTime, i.r, i.peak, i.ub).w.o
         /\ \A f \in BiasArgs :
              /\ setBias(WorldWith(b), f).o = setBias(World, f).o
              /\ incrBias(WorldWith(b), f).o = incrBias(World, f).o
         /\ \A f \in DeltaArgs : setBeatDelta(WorldWith(b), f).o = setBeatDelta(World, f).o
         /\ \A f \in PeakArgs : setPeakScale(WorldWith(b), f).o = setPeakScale(World, f).o

\* A clock that was cold started over an EEPROM holding a calibration has
\* handled a beat: its table is blank, and a start that was not forced would
\* have differed.
C26_Witness ==
  /\ calls = 1
  /\ op.kind = "beat"
  /\ esc.eeprom.id = 0
  /\ esc.runMode = WARMSTART
  /\ rom.id = SETTINGS_TAG /\ rom.uspb[0] > 0
  /\ esc.eeprom.uspb[0] = 0
  /\ \E r \in TempReadings :
       enable(World, RUN, r).o # enable(WorldWith(ErasedSettings), RUN, r).o

\* C27: in RUN the model is the fit of the complete buckets as the table
\* holds them: makeModel() would leave slope and intercept as they are.  With
\* no complete bucket both are 0; with one, the slope is 0 and the intercept
\* is that bucket's mean.
C27_ModelFresh ==
  esc.runMode = RUN =>
    /\ esc.slope = makeModel(esc).slope
    /\ esc.intercept = makeModel(esc).intercept
    /\ Complete(esc) = {} => esc.slope = FZero /\ esc.intercept = FZero
    /\ \A i \in Complete(esc) :
         Complete(esc) = {i} =>
           esc.slope = FZero /\ esc.intercept = FFromInt(esc.eeprom.uspb[i])

\* A clock has calibrated a bucket and a beat has left it in RUN on the
\* model of that table.
C27_Witness ==
  /\ op.kind = "beat"
  /\ esc.runMode = RUN
  /\ Complete(esc) # {}
  /\ esc.intercept # FZero
  /\ esc.eeprom.peakScale = INIT_PEAK

\* C28: every bucket that has taken in a sample since the reset holds a mean
\* duration between the least and the greatest duration credited to it and a
\* mean temperature between the least and the greatest temperature credited
\* to it, hence a temperature of its own half degree; and no two complete
\* buckets hold the same temperature.
C28_AsStated ==
  /\ \A j \in Buckets :
       hist.hi[j] # 0 =>
         /\ hist.lo[j] <= esc.eeprom.uspb[j] /\ esc.eeprom.uspb[j] <= hist.hi[j]
         /\ hist.thi[j] # 0 =>
              /\ hist.tlo[j] <= esc.eeprom.temp[j] /\ esc.eeprom.temp[j] <= hist.thi[j]
              /\ BucketOf(TRUE, esc.eeprom.temp[j]) = j
  /\ \A j \in Complete(esc), k \in Complete(esc) :
       j # k => esc.eeprom.temp[j] # esc.eeprom.temp[k]

====
